---------------------------- MODULE Spec2Model ----------------------------
(***************************************************************************)
(* A model of healthkit_diabetes.py: the glucose zone classifier, the      *)
(* boundary-crossing solver, the segment builder (_glucose_traces), the    *)
(* range statistics (_glucose_stats / _stats_section) and the date-range   *)
(* session state driven by the date picker and the quick-select buttons.   *)
(*                                                                         *)
(* Glucose values are integer-valued readings (mmol/l).  Timestamps are    *)
(* whole nanoseconds (pandas keeps a Timestamp as an int64 count of such   *)
(* ticks), written [day, sec, ns]: the day, the second of the day and the  *)
(* nanosecond of the second.  Python floats are IEEE-754 binary64 and are  *)
(* modelled bit by bit (53-bit mantissa, round to nearest even), because   *)
(* round() and the Timedelta product depend on the rounding of a/n*100     *)
(* and of ratio*(t1-t0).                                                   *)
(***************************************************************************)
EXTENDS Integers, Sequences, FiniteSets

VARIABLES
    (* what load_data returns for the export file as it is now; <<>> is the *)
    (* frame without columns that it returns for a record type with no record *)
    df_g,         \* glucose frame: sequence of [date, value]
    df_c,         \* carbohydrate frame: sequence of [date, value]
    df_i,         \* insulin frame: sequence of [date, value, reason]
    (* _glucose_traces *)
    dates,        \* f_g["date"].tolist(): timestamps, non-decreasing (sorted at load)
    values,       \* f_g["value"].tolist()
    pc,           \* position in _glucose_traces: "start", "loop", "done"; "off" when not called
    pt,           \* the loop index of line 90 (1-based here)
    segments,     \* the list of closed segments (seg_x, seg_y, seg_ok)
    seg_x,        \* the open segment's times
    seg_y,        \* the open segment's values
    seg_ok,       \* the open segment's zone
    xcall,        \* the arguments of the latest _crossing_point call, <<>> if none
    (* _stats_section *)
    ins,          \* f_i: sequence of [date, value, reason], value in half units
    crb,          \* f_c: sequence of [date, value], value in half grams
    n_days,       \* the n_days argument of _stats_section
    spc,          \* "ready" before _stats_section, "done" after it, "raised" if it raised
    g,            \* _glucose_stats(glc): None or the statistics record
    totals,       \* bolus, basal, carbs of lines 185-187
    daily,        \* the daily averages of lines 227, 233, 242
    (* the script and its session *)
    ui,           \* position of the script run, or how the last run ended; "off": no session
    min_date_val, \* first day of the data, as the latest run computed it
    max_date_val, \* last day of the data, as the latest run computed it
    start_date,   \* st.session_state.start_date
    end_date,     \* st.session_state.end_date
    session_keys, \* which of "start_date", "end_date" are in st.session_state
    event,        \* what started the run: a button press, until the run handles it, or st.rerun()
    shown,        \* the widgets on the page: "none", "picker", "all"
    picker,       \* the picker on the page: the arguments it was built with and the selection in it
    rewrites      \* how often the export file was rewritten during the session

vars == <<df_g, df_c, df_i,
          dates, values, pc, pt, segments, seg_x, seg_y, seg_ok, xcall,
          ins, crb, n_days, spc, g, totals, daily,
          ui, min_date_val, max_date_val, start_date, end_date,
          session_keys, event, shown, picker, rewrites>>

dataVars   == <<df_g, df_c, df_i>>
tracesVars == <<pc, pt, segments, seg_x, seg_y, seg_ok, xcall>>
statsVars  == <<n_days, spc, g, totals, daily>>
uiVars     == <<ui, min_date_val, max_date_val, start_date, end_date,
                session_keys, event, shown, picker, rewrites>>

-----------------------------------------------------------------------------
(* Program constants *)

GLUCOSE_MIN == 4
GLUCOSE_MAX == 10

\* Python's None, where a record is expected
None == [none |-> TRUE]

(* Bounds of the model *)

\* longest reading sequence given to the segment builder
MaxLen == 3
\* latest timestamp given to the segment builder, in nanoseconds
MaxT == 3
\* longest run of equal readings in the large statistics inputs
MaxRun == 109
\* last day of the export in the script sessions
MaxDay == 4
\* rewrites of the export file in one session
MaxRewrites == 1

\* reading values: below, on and between the two thresholds, above
Values == {3, 4, 7, 10, 12}

-----------------------------------------------------------------------------
(* IEEE-754 binary64, as far as the program uses it: a quotient of two     *)
(* integers, its product with an integer, round() and int().               *)
(* A float is [sign, m, e]: m is the 53-bit mantissa (2^52 <= m < 2^53)    *)
(* and e the exponent of its leading bit, so |f| = m * 2^(e - 52).  Zero   *)
(* has an empty mantissa.  A mantissa does not fit the 32-bit integers of  *)
(* TLC: m is a sequence of digits in base 2^13, least significant          *)
(* first, and so is a count of nanoseconds.  float() of an integer of     *)
(* more than 53 bits rounds it.  An operator binds an argument it reads    *)
(* more than once with LET, to evaluate it once.                           *)

MantissaBits == 53

\* the 52 bits after the leading one, in four digits
DigitBits == (MantissaBits - 1) \div 4
Base == 2^DigitBits

Abs(x) == IF x < 0 THEN -x ELSE x
Sgn(x) == IF x < 0 THEN -1 ELSE IF x > 0 THEN 1 ELSE 0

FloatZero == [sign |-> 0, m |-> <<>>, e |-> 0]

\* the digits of k
RECURSIVE BigOf(_)
BigOf(k) == IF k = 0 THEN <<>> ELSE <<k % Base>> \o BigOf(k \div Base)

\* x + 1
RECURSIVE BigInc(_)
BigInc(x) ==
    IF x = <<>> THEN <<1>>
    ELSE IF x[1] + 1 < Base THEN [x EXCEPT ![1] = x[1] + 1]
    ELSE <<0>> \o BigInc(Tail(x))

\* x * c + carry
RECURSIVE BigMulSmall(_, _, _)
BigMulSmall(x, c, carry) ==
    IF x = <<>> THEN BigOf(carry)
    ELSE LET t == x[1] * c + carry
         IN  <<t % Base>> \o BigMulSmall(Tail(x), c, t \div Base)

\* x with top digits that are 0 removed
RECURSIVE BigStrip(_)
BigStrip(x) ==
    IF x # <<>> /\ x[Len(x)] = 0 THEN BigStrip(SubSeq(x, 1, Len(x) - 1)) ELSE x

\* x + y + carry
RECURSIVE BigAdd(_, _, _)
BigAdd(x, y, carry) ==
    IF x = <<>> /\ y = <<>> THEN BigOf(carry)
    ELSE LET t == (IF x = <<>> THEN 0 ELSE x[1])
                  + (IF y = <<>> THEN 0 ELSE y[1]) + carry
         IN  <<t % Base>> \o BigAdd(IF x = <<>> THEN <<>> ELSE Tail(x),
                                     IF y = <<>> THEN <<>> ELSE Tail(y),
                                     t \div Base)

\* the digits of x - y - borrow, for x >= y + borrow, top zeros kept
RECURSIVE BigSubDigits(_, _, _)
BigSubDigits(x, y, borrow) ==
    IF x = <<>> THEN <<>>
    ELSE LET t == x[1] - (IF y = <<>> THEN 0 ELSE y[1]) - borrow
         IN  <<t % Base>> \o BigSubDigits(Tail(x),
                                           IF y = <<>> THEN <<>> ELSE Tail(y),
                                           IF t < 0 THEN 1 ELSE 0)

\* x - y, for x >= y
BigSub(x, y) == BigStrip(BigSubDigits(x, y, 0))

\* x * y
RECURSIVE BigMul(_, _)
BigMul(x, y) ==
    IF x = <<>> \/ y = <<>> THEN <<>>
    ELSE LET rest == BigMul(x, Tail(y))
         IN  BigStrip(BigAdd(BigMulSmall(x, y[1], 0),
                             IF rest = <<>> THEN <<>> ELSE <<0>> \o rest, 0))

\* quotient and remainder of x by c, 0 < c < 2^17
RECURSIVE BigDivSmall(_, _)
BigDivSmall(x, c) ==
    IF x = <<>> THEN [q |-> <<>>, r |-> 0]
    ELSE LET hi == BigDivSmall(Tail(x), c)
             t  == hi.r * Base + x[1]
         IN  [q |-> BigStrip(<<t \div c>> \o hi.q), r |-> t % c]

RECURSIVE BitLen(_)
BitLen(k) == IF k = 0 THEN 0 ELSE 1 + BitLen(k \div 2)

\* the number of bits of x (its top digit is not 0)
BigBitLen(x) ==
    IF x = <<>> THEN 0 ELSE (Len(x) - 1) * DigitBits + BitLen(x[Len(x)])

\* bit i of x, bit 0 the least significant
BigBit(x, i) ==
    LET d == (i \div DigitBits) + 1
    IN  IF d > Len(x) THEN 0 ELSE (x[d] \div 2^(i % DigitBits)) % 2

\* whether any of the k low bits of x is set
BigLowBits(x, k) ==
    LET d == k \div DigitBits
        s == k % DigitBits
    IN  \/ \E i \in 1..d : i <= Len(x) /\ x[i] # 0
        \/ s > 0 /\ d < Len(x) /\ x[d + 1] % 2^s # 0

\* floor(x / 2^k)
BigShiftRight(x, k) ==
    LET y == SubSeq(x, (k \div DigitBits) + 1, Len(x))
        s == k % DigitBits
        n == Len(y)
    IN  BigStrip([i \in 1..n |->
            (y[i] \div 2^s)
            + (IF i < n THEN (y[i + 1] % 2^s) * 2^(DigitBits - s) ELSE 0)])

\* the value of x, for x < 2^31
RECURSIVE BigValue(_)
BigValue(x) == IF x = <<>> THEN 0 ELSE x[1] + Base * BigValue(Tail(x))

\* round to nearest, ties to even: guard is the first dropped bit, sticky
\* tells whether any later dropped bit is set
RoundNearestEven(sign, m, e, guard, sticky) ==
    IF guard = 1 /\ (sticky \/ BigBit(m, 0) = 1)
    THEN LET up == BigInc(m) IN
         IF BigBitLen(up) > MantissaBits
         THEN [sign |-> sign, m |-> BigShiftRight(up, 1), e |-> e + 1]
         ELSE [sign |-> sign, m |-> up, e |-> e]
    ELSE [sign |-> sign, m |-> m, e |-> e]

\* scale p / q into [1, 2): p, q > 0
RECURSIVE Normalize(_, _, _)
Normalize(p, q, e) ==
    IF p >= 2 * q THEN Normalize(p, 2 * q, e + 1)
    ELSE IF p < q THEN Normalize(2 * p, q, e - 1)
    ELSE [p |-> p, q |-> q, e |-> e]

\* the next k digits of the quotient r / q (0 <= r < q), the least
\* significant first, and the remainder left
RECURSIVE DivDigits(_, _, _)
DivDigits(r, q, k) ==
    IF k = 0 THEN [m |-> <<>>, r |-> r]
    ELSE LET t    == r * Base
             rest == DivDigits(t % q, q, k - 1)
         IN  [m |-> rest.m \o <<t \div q>>, r |-> rest.r]

\* float(p) / float(q), q # 0
FloatDiv(p, q) ==
    IF p = 0 THEN FloatZero
    ELSE LET n == Normalize(Abs(p), Abs(q), 0)
             d == DivDigits(n.p - n.q, n.q, (MantissaBits - 1) \div DigitBits)
             m == d.m \o <<1>>
         IN  RoundNearestEven(Sgn(p) * Sgn(q), m, n.e,
                 IF 2 * d.r >= n.q THEN 1 ELSE 0,
                 2 * d.r # n.q /\ d.r # 0)

\* the digits of 2^k
BigPow2(k) ==
    [i \in 1..((k \div DigitBits) + 1) |->
        IF i = (k \div DigitBits) + 1 THEN 2^(k % DigitBits) ELSE 0]

\* float() of the integer of sign sgn and digits c: exact up to 53 bits,
\* rounded beyond
FloatOf(sgn, c) ==
    LET n == BigBitLen(c)
        k == n - MantissaBits
    IN  IF c = <<>> THEN FloatZero
        ELSE IF k <= 0
        THEN [sign |-> sgn, m |-> BigMul(c, BigPow2(-k)), e |-> n - 1]
        ELSE RoundNearestEven(sgn, BigShiftRight(c, k), n - 1,
                 BigBit(c, k - 1), BigLowBits(c, k - 1))

\* x * y
FloatProduct(x, y) ==
    IF x.m = <<>> \/ y.m = <<>> THEN FloatZero
    ELSE LET prod == BigMul(x.m, y.m)
             k    == BigBitLen(prod) - MantissaBits
         IN  RoundNearestEven(x.sign * y.sign, BigShiftRight(prod, k),
                 x.e + y.e + k - (MantissaBits - 1),
                 BigBit(prod, k - 1), BigLowBits(prod, k - 1))

\* f * float(c) for an integer of sign sgn and digits c
FloatTimes(f, sgn, c) ==
    LET x == f IN FloatProduct(x, FloatOf(sgn, c))

\* f * float(c) for an integer c
FloatMul(f, c) == FloatTimes(f, Sgn(c), BigOf(Abs(c)))

\* the digits of the integer part of |f|
BigIntPart(f) ==
    LET x == f IN
    IF x.m = <<>> \/ x.e < 0 THEN <<>>
    ELSE IF x.e < MantissaBits THEN BigShiftRight(x.m, (MantissaBits - 1) - x.e)
    ELSE BigMul(x.m, BigPow2(x.e - (MantissaBits - 1)))

\* the integer part of |f| (|f| < 2^31)
IntPart(f) == BigValue(BigIntPart(f))

\* round(f): to the nearest integer, ties to the even one
FloatRound(f) ==
    LET x == f IN
    IF x.m = <<>> \/ x.e < -1 THEN 0
    ELSE LET n      == IntPart(x)
             frac   == (MantissaBits - 1) - x.e
             half   == BigBit(x.m, frac - 1)
             sticky == BigLowBits(x.m, frac - 1)
         IN  x.sign * (IF half = 1 /\ (sticky \/ n % 2 = 1) THEN n + 1 ELSE n)

-----------------------------------------------------------------------------
(* Timestamps and their differences *)

SecondsPerDay == 86400
NsPerSecond == 1000000000

\* a divisor of NsPerSecond, to divide by it in two steps
NsFactor == 32000

\* the timestamp ns nanoseconds after second sec of day d
At(d, sec, ns) == [day |-> d, sec |-> sec, ns |-> ns]

\* a <= b
TimeLeq(a, b) ==
    \/ a.day < b.day
    \/ a.day = b.day /\ a.sec < b.sec
    \/ a.day = b.day /\ a.sec = b.sec /\ a.ns <= b.ns

\* the nanoseconds from midnight of day 0 to t, in digits
NsOf(t) ==
    BigAdd(BigMul(BigOf(t.day * SecondsPerDay + t.sec), BigOf(NsPerSecond)),
           BigOf(t.ns), 0)

\* the timestamp x nanoseconds after midnight of day 0
TimeOf(x) ==
    LET lo   == BigDivSmall(x, NsFactor)
        hi   == BigDivSmall(lo.q, NsPerSecond \div NsFactor)
        secs == BigValue(hi.q)
    IN  At(secs \div SecondsPerDay, secs % SecondsPerDay, hi.r * NsFactor + lo.r)

\* t1 - t0, a Timedelta: a sign and a count of nanoseconds
TimeDiff(t1, t0) ==
    IF TimeLeq(t0, t1) THEN [sign |-> 1, ns |-> BigSub(NsOf(t1), NsOf(t0))]
    ELSE [sign |-> -1, ns |-> BigSub(NsOf(t0), NsOf(t1))]

\* t + a Timedelta of sign sgn and ns nanoseconds, not before day 0
TimeAdd(t, sgn, ns) ==
    TimeOf(IF sgn >= 0 THEN BigAdd(NsOf(t), ns, 0) ELSE BigSub(NsOf(t), ns))

-----------------------------------------------------------------------------
(* The zone classifier and the crossing solver *)

\* a classifier that counts the thresholds themselves as out of range
ZoneThresholdsOutside(v) ==
    IF v <= GLUCOSE_MIN THEN "below"
    ELSE IF v >= GLUCOSE_MAX THEN "above"
    ELSE "in_range"

_glucose_zone(v) ==
    IF v < GLUCOSE_MIN THEN "below"
    ELSE IF v > GLUCOSE_MAX THEN "above"
    ELSE "in_range"

\* a solver that only knows the upper threshold
UpperBoundaryOnly(v0, v1) == GLUCOSE_MAX

\* line 72
CrossedBoundary(v0, v1) ==
    IF (v0 < GLUCOSE_MIN) # (v1 < GLUCOSE_MIN) THEN GLUCOSE_MIN ELSE GLUCOSE_MAX

\* line 73
CrossingRatio(boundary, v0, v1) ==
    IF v1 # v0 THEN FloatDiv(boundary - v0, v1 - v0) ELSE FloatDiv(1, 2)

\* line 74: Timedelta * float keeps int64(ratio * nanoseconds)
_crossing_point(t0, t1, v0, v1) ==
    LET boundary == CrossedBoundary(v0, v1)
        ratio    == CrossingRatio(boundary, v0, v1)
        delta    == TimeDiff(t1, t0)
        step     == FloatTimes(ratio, delta.sign, delta.ns)
    IN  <<TimeAdd(t0, step.sign, BigIntPart(step)), boundary>>


-----------------------------------------------------------------------------
(* _glucose_traces, one step of its pass at a time *)

Segment(x, y, ok) == [x |-> x, y |-> y, ok |-> ok]

\* _glucose_traces reads its frame and writes its own lists only
TracesFrame == UNCHANGED <<dataVars, dates, values, ins, crb, statsVars, uiVars>>

\* a zone test that only tells in range from out of range
SameSide(v, ok) == (_glucose_zone(v) = "in_range") = (ok = "in_range")

\* line 91
SameZone(v, ok) == _glucose_zone(v) = ok

\* lines 79-80: an empty frame gives an empty list
TracesEmpty ==
    /\ pc = "start"
    /\ values = <<>>
    /\ pc' = "done"
    /\ UNCHANGED <<pt, segments, seg_x, seg_y, seg_ok, xcall>>
    /\ TracesFrame

\* lines 82-88
TracesBegin ==
    /\ pc = "start"
    /\ values # <<>>
    /\ segments' = <<>>
    /\ seg_x' = <<dates[1]>>
    /\ seg_y' = <<values[1]>>
    /\ seg_ok' = _glucose_zone(values[1])
    /\ pt' = 2
    /\ pc' = "loop"
    /\ UNCHANGED xcall
    /\ TracesFrame

\* a pass that puts the reading which changed zone into the segment it closes
LoopSameAlways ==
    /\ pc = "loop"
    /\ pt <= Len(values)
    /\ seg_x' = Append(seg_x, dates[pt])
    /\ seg_y' = Append(seg_y, values[pt])
    /\ pt' = pt + 1
    /\ UNCHANGED <<pc, segments, seg_ok, xcall>>
    /\ TracesFrame

\* lines 91-93: the reading continues the open segment
LoopSame ==
    /\ pc = "loop"
    /\ pt <= Len(values)
    /\ SameZone(values[pt], seg_ok)
    /\ seg_x' = Append(seg_x, dates[pt])
    /\ seg_y' = Append(seg_y, values[pt])
    /\ pt' = pt + 1
    /\ UNCHANGED <<pc, segments, seg_ok, xcall>>
    /\ TracesFrame

\* a zone change that closes the segment at the crossing point but opens the
\* next one at the reading
LoopCrossGap ==
    /\ pc = "loop"
    /\ pt <= Len(values)
    /\ _glucose_zone(values[pt]) # seg_ok
    /\ \E cross \in {_crossing_point(dates[pt - 1], dates[pt], values[pt - 1], values[pt])} :
           /\ xcall' = <<dates[pt - 1], dates[pt], values[pt - 1], values[pt]>>
           /\ segments' = Append(segments,
                  Segment(Append(seg_x, cross[1]), Append(seg_y, cross[2]), seg_ok))
    /\ seg_x' = <<dates[pt]>>
    /\ seg_y' = <<values[pt]>>
    /\ seg_ok' = _glucose_zone(values[pt])
    /\ pt' = pt + 1
    /\ UNCHANGED pc
    /\ TracesFrame

\* lines 94-104: the zone changes; close the segment at the crossing point
\* and open the next one there
LoopCross ==
    /\ pc = "loop"
    /\ pt <= Len(values)
    /\ ~SameZone(values[pt], seg_ok)
    /\ \E cross \in {_crossing_point(dates[pt - 1], dates[pt], values[pt - 1], values[pt])} :
       LET t_cross  == cross[1]
           boundary == cross[2]
       IN  /\ xcall' = <<dates[pt - 1], dates[pt], values[pt - 1], values[pt]>>
           /\ segments' = Append(segments,
                  Segment(Append(seg_x, t_cross), Append(seg_y, boundary), seg_ok))
           /\ seg_x' = <<t_cross, dates[pt]>>
           /\ seg_y' = <<boundary, values[pt]>>
           /\ seg_ok' = _glucose_zone(values[pt])
    /\ pt' = pt + 1
    /\ UNCHANGED pc
    /\ TracesFrame

\* line 106: the open segment is the last one
TracesFinish ==
    /\ pc = "loop"
    /\ pt > Len(values)
    /\ segments' = Append(segments, Segment(seg_x, seg_y, seg_ok))
    /\ pc' = "done"
    /\ UNCHANGED <<pt, seg_x, seg_y, seg_ok, xcall>>
    /\ TracesFrame

-----------------------------------------------------------------------------
(* _glucose_stats and _stats_section *)

\* a range test that leaves both thresholds out
BetweenExclusive(v) == GLUCOSE_MIN < v /\ v < GLUCOSE_MAX

\* vals.between(GLUCOSE_MIN, GLUCOSE_MAX): both ends included
Between(v) == GLUCOSE_MIN <= v /\ v <= GLUCOSE_MAX

\* (vals > GLUCOSE_MAX)
Above(v) == v > GLUCOSE_MAX

CountBetween(vals) == Cardinality({i \in DOMAIN vals : Between(vals[i])})
CountAbove(vals) == Cardinality({i \in DOMAIN vals : Above(vals[i])})

RECURSIVE SumOver(_, _)
SumOver(S, vals) ==
    IF S = {} THEN 0
    ELSE LET v == CHOOSE v \in S : TRUE
         IN  v * Cardinality({i \in DOMAIN vals : vals[i] = v}) + SumOver(S \ {v}, vals)

\* the sum of a sequence of numbers
Sum(vals) == SumOver({vals[i] : i \in DOMAIN vals}, vals)

\* a percentage that multiplies before it divides: round(count * 100 / n)
PercentProductFirst(count, n) == FloatRound(FloatDiv(100 * count, n))

\* round(count / n * 100), lines 165-166
Percent(count, n) == FloatRound(FloatMul(FloatDiv(count, n), 100))

\* statistics that answer an empty frame with a record of zeros
ZeroFilledStats(vals) ==
    IF vals = <<>>
    THEN [tir |-> 0, tar |-> 0, tbr |-> 0, mean |-> FloatZero, min |-> 0, max |-> 0]
    ELSE LET n   == Len(vals)
             tir == FloatRound(FloatMul(FloatDiv(CountBetween(vals), n), 100))
             tar == FloatRound(FloatMul(FloatDiv(CountAbove(vals), n), 100))
             all == {vals[i] : i \in DOMAIN vals}
         IN  [tir  |-> tir, tar |-> tar, tbr |-> 100 - tir - tar,
              mean |-> FloatDiv(Sum(vals), n),
              min  |-> CHOOSE v \in all : \A w \in all : v <= w,
              max  |-> CHOOSE v \in all : \A w \in all : v >= w]

_glucose_stats(vals) ==
    IF vals = <<>> THEN None
    ELSE LET n   == Len(vals)
             tir == Percent(CountBetween(vals), n)
             tar == Percent(CountAbove(vals), n)
             all == {vals[i] : i \in DOMAIN vals}
         IN  [tir  |-> tir, tar |-> tar, tbr |-> 100 - tir - tar,
              mean |-> FloatDiv(Sum(vals), n),
              min  |-> CHOOSE v \in all : \A w \in all : v <= w,
              max  |-> CHOOSE v \in all : \A w \in all : v >= w]

\* the "reason" tags of the insulin frame ("Болюс", "Базал")
Bolus == "bolus"
Basal == "basal"

ValuesOf(frame) == [i \in DOMAIN frame |-> frame[i].value]

\* ins[ins["reason"] == reason]["value"].sum(), in half units
SumReason(frame, reason) ==
    Sum(ValuesOf(SelectSeq(frame, LAMBDA r : r.reason = reason)))

\* lines 185-187; carbs is int(sum): whole grams of a sum kept in half grams
Totals(f_i, f_c) ==
    [bolus |-> IF f_i # <<>> THEN SumReason(f_i, Bolus) ELSE 0,
     basal |-> IF f_i # <<>> THEN SumReason(f_i, Basal) ELSE 0,
     carbs |-> IF f_c # <<>> THEN Sum(ValuesOf(f_c)) \div 2 ELSE 0]

\* lines 227, 233, 242: round(bolus / n_days), round(basal / n_days),
\* int(round(carbs / n_days)); a division by zero raises
Daily(t, nd) ==
    IF nd = 0 THEN None
    ELSE [bolus |-> FloatRound(FloatDiv(t.bolus, 2 * nd)),
          basal |-> FloatRound(FloatDiv(t.basal, 2 * nd)),
          carbs |-> FloatRound(FloatDiv(t.carbs, nd))]

\* what one call _stats_section(glc, ins, crb, n_days) leaves
StatsOf(vals, f_i, f_c, nd) ==
    LET t == Totals(f_i, f_c)
        d == Daily(t, nd)
    IN  [g |-> _glucose_stats(vals), totals |-> t, daily |-> d,
         spc |-> IF d = None THEN "raised" ELSE "done"]

\* the call of line 578 is the last statement of the script
_stats_section ==
    /\ spc = "ready"
    /\ \E r \in {StatsOf(values, ins, crb, n_days)} :
           /\ g' = r.g
           /\ totals' = r.totals
           /\ daily' = r.daily
           /\ spc' = r.spc
           /\ ui' = IF ui # "stats" THEN ui
                    ELSE IF r.spc = "done" THEN "wait" ELSE "zero_division"
    /\ UNCHANGED <<dataVars, dates, values, ins, crb, n_days, tracesVars,
                   min_date_val, max_date_val, start_date, end_date,
                   session_keys, event, shown, picker, rewrites>>

-----------------------------------------------------------------------------
(* The script: one run from load_data to _stats_section, step by step, the   *)
(* session state, and the events that start a run                            *)

\* line 506
_days(s, e) == e - s

Max(a, b) == IF a >= b THEN a ELSE b

\* a day count that is the bare difference of the two dates
SpanDays(d) == d

\* line 578: max(1, _days + 1)
NDays(d) == Max(1, d + 1)

\* .date() of a timestamp
DayOf(t) == t.day

\* line 386: pd.to_datetime(start_date), midnight
StartDt(s) == At(s, 0, 0)

\* lines 387-389: timedelta(hours=23, minutes=59, seconds=59), in seconds
EndOfDay == 23 * 3600 + 59 * 60 + 59

\* lines 387-389: end_date + 23:59:59
EndDt(e) == At(e, EndOfDay, 0)

\* lines 391-393: df[(df["date"] >= start_dt) & (df["date"] <= end_dt)];
\* a frame without columns has no "date": KeyError
Filter(df, s, e) ==
    IF df = <<>> THEN [raised |-> TRUE, rows |-> <<>>]
    ELSE [raised |-> FALSE,
          rows |-> SelectSeq(df, LAMBDA r : /\ TimeLeq(StartDt(s), r.date)
                                            /\ TimeLeq(r.date, EndDt(e)))]

\* lines 337-340: the days of the records of the frames that are not empty
AllDates(fg, fc, fi) ==
    {DayOf(fg[i].date) : i \in DOMAIN fg} \cup {DayOf(fc[i].date) : i \in DOMAIN fc}
        \cup {DayOf(fi[i].date) : i \in DOMAIN fi}
MinDate(fg, fc, fi) ==
    CHOOSE d \in AllDates(fg, fc, fi) : \A x \in AllDates(fg, fc, fi) : d <= x
MaxDate(fg, fc, fi) ==
    CHOOSE d \in AllDates(fg, fc, fi) : \A x \in AllDates(fg, fc, fi) : d >= x

\* what started the run, when it was not the first run, a selection in the
\* picker or the user's rerun
NoEvent == [kind |-> "none", days |-> 0]

\* the run was started by st.rerun()
StRerun == [kind |-> "st.rerun", days |-> 0]

\* no picker on the page
NoPicker == [id |-> <<>>, sel |-> <<>>]

\* the periods of the five buttons, lines 364-383
QuickDays == {3, 7, 14, 30, 60}

\* Every access to st.session_state is a point where the run stops when a
\* rerun was requested, a write before it stores: a run can stop between
\* the two writes of lines 343 and 346, of line 358 and of a button's branch.

\* lines 328-343: load_data, st.stop() on an export without records, the span
\* of the data, the start date of a session that has none
LoadData ==
    /\ ui = "load"
    /\ IF AllDates(df_g, df_c, df_i) = {}
       THEN /\ ui' = "stopped"
            /\ shown' = "none"
            /\ picker' = NoPicker
            /\ event' = NoEvent
            /\ UNCHANGED <<min_date_val, max_date_val, start_date, session_keys>>
       ELSE \E lo \in {MinDate(df_g, df_c, df_i)}, hi \in {MaxDate(df_g, df_c, df_i)} :
                /\ min_date_val' = lo
                /\ max_date_val' = hi
                /\ start_date' = IF "start_date" \in session_keys THEN start_date
                                 ELSE Max(lo, hi - 3)
                /\ session_keys' = session_keys \cup {"start_date"}
                /\ ui' = "init_end"
                /\ UNCHANGED <<shown, picker, event>>
    /\ UNCHANGED <<dataVars, dates, values, ins, crb, tracesVars, statsVars,
                   end_date, rewrites>>

\* lines 345-346: the end date of a session that has none
InitEndDate ==
    /\ ui = "init_end"
    /\ end_date' = IF "end_date" \in session_keys THEN end_date ELSE max_date_val
    /\ session_keys' = session_keys \cup {"end_date"}
    /\ ui' = "picker"
    /\ UNCHANGED <<dataVars, dates, values, ins, crb, tracesVars, statsVars,
                   min_date_val, max_date_val, start_date, event, shown, picker, rewrites>>

\* lines 351-356: the picker has no key, so its label, value, min_value and
\* max_value are its identity; the label is a literal
PickerId == <<start_date, end_date, min_date_val, max_date_val>>

\* what st.date_input returns: the user's selection in the picker of this
\* identity, or the default when there is none or the picker on the page
\* was another one
Selected ==
    IF picker.id = PickerId /\ picker.sel # <<>> THEN picker.sel
    ELSE <<start_date, end_date>>

\* lines 350-358, to the first write of line 358: st.date_input raises
\* StreamlitAPIException when its first default date is before min_value or
\* its second after max_value; otherwise the picker is on the page as it
\* was built, with the default of line 353, and the first of two returned
\* dates is stored
DateInput ==
    /\ ui = "picker"
    /\ IF start_date < min_date_val \/ end_date > max_date_val
       THEN /\ ui' = "api_error"
            /\ shown' = "none"
            /\ picker' = NoPicker
            /\ event' = NoEvent
            /\ UNCHANGED start_date
       ELSE \E selected_dates \in {Selected} :
                /\ picker' = [id |-> PickerId,
                              sel |-> IF picker.id = PickerId THEN picker.sel ELSE <<>>]
                /\ shown' = IF shown = "none" THEN "picker" ELSE shown
                /\ IF Len(selected_dates) = 2
                   THEN start_date' = selected_dates[1] /\ ui' = "store_end"
                   ELSE UNCHANGED start_date /\ ui' = "buttons"
                /\ UNCHANGED event
    /\ UNCHANGED <<dataVars, dates, values, ins, crb, tracesVars, statsVars,
                   min_date_val, max_date_val, end_date, session_keys, rewrites>>

\* line 358, its second write: the second of the two returned dates
StoreEndDate ==
    /\ ui = "store_end"
    /\ end_date' = IF Len(picker.sel) = 2 THEN picker.sel[2] ELSE end_date
    /\ ui' = "buttons"
    /\ UNCHANGED <<dataVars, dates, values, ins, crb, tracesVars, statsVars,
                   min_date_val, max_date_val, start_date, session_keys,
                   event, shown, picker, rewrites>>

\* lines 360-383, to the first write of the pressed button's branch
QuickSelect ==
    /\ ui = "buttons"
    /\ IF event.kind = "button"
       THEN /\ start_date' = max_date_val - event.days
            /\ ui' = "button_end"
            /\ UNCHANGED shown
       ELSE /\ ui' = "filter"
            /\ shown' = "all"
            /\ UNCHANGED start_date
    /\ UNCHANGED <<dataVars, dates, values, ins, crb, tracesVars, statsVars,
                   min_date_val, max_date_val, end_date, session_keys,
                   event, picker, rewrites>>

\* the second write of the pressed button's branch, and st.rerun(), which
\* ends the run
QuickSelectEnd ==
    /\ ui = "button_end"
    /\ end_date' = max_date_val
    /\ ui' = "load"
    /\ event' = StRerun
    /\ UNCHANGED <<dataVars, dates, values, ins, crb, tracesVars, statsVars,
                   min_date_val, max_date_val, start_date, session_keys,
                   shown, picker, rewrites>>

\* lines 386-405: the frames of the period; _glucose_traces(f_g) is called
\* when f_g is not empty
FilterFrames ==
    /\ ui = "filter"
    /\ \E fg \in {Filter(df_g, start_date, end_date)},
          fc \in {Filter(df_c, start_date, end_date)},
          fi \in {Filter(df_i, start_date, end_date)} :
           IF fg.raised \/ fc.raised \/ fi.raised
           THEN /\ ui' = "key_error"
                /\ UNCHANGED <<dates, values, ins, crb, pc>>
           ELSE /\ dates' = [i \in DOMAIN fg.rows |-> fg.rows[i].date]
                /\ values' = ValuesOf(fg.rows)
                /\ ins' = fi.rows
                /\ crb' = fc.rows
                /\ pc' = IF fg.rows # <<>> THEN "start" ELSE "off"
                /\ ui' = "chart"
    /\ UNCHANGED <<dataVars, pt, segments, seg_x, seg_y, seg_ok, xcall, statsVars,
                   min_date_val, max_date_val, start_date, end_date,
                   session_keys, event, shown, picker, rewrites>>

\* lines 406-578: the rest of the chart, _days, and the arguments of
\* _stats_section
Chart ==
    /\ ui = "chart"
    /\ pc \in {"off", "done"}
    /\ n_days' = NDays(_days(start_date, end_date))
    /\ spc' = "ready"
    /\ ui' = "stats"
    /\ UNCHANGED <<dataVars, dates, values, ins, crb, tracesVars, g, totals, daily,
                   min_date_val, max_date_val, start_date, end_date,
                   session_keys, event, shown, picker, rewrites>>

\* a run in progress at a point where a requested rerun stops it
Running ==
    ui \in {"init_end", "store_end", "buttons", "button_end", "filter", "chart", "stats"}

\* a run that ended: at its last line, by an exception or by st.stop()
Ended == ui \in {"wait", "key_error", "zero_division", "api_error", "stopped"}

\* the script starts again from its first line, with nothing left of the run
\* before but the session and the page, where the picker holds sel
StartRun(ev, sel) ==
    /\ ui' = "load"
    /\ event' = ev
    /\ picker' = [picker EXCEPT !.sel = sel]
    /\ dates' = <<>> /\ values' = <<>> /\ ins' = <<>> /\ crb' = <<>>
    /\ n_days' = 1 /\ spc' = "off" /\ g' = None /\ totals' = None /\ daily' = None
    /\ pc' = "off" /\ pt' = 0 /\ segments' = <<>>
    /\ seg_x' = <<>> /\ seg_y' = <<>> /\ seg_ok' = "none" /\ xcall' = <<>>
    /\ UNCHANGED <<dataVars, min_date_val, max_date_val, start_date, end_date,
                   session_keys, shown, rewrites>>

\* the days the user picks: the first and the last two of the longest export
PickDays == {0, MaxDay - 1, MaxDay}

\* the buttons the user presses: the shortest period, and one that is longer
\* than the longest export, as the three after it are
PressDays == {days \in QuickDays : days <= 7}

\* the user picks a range in the picker on the page, inside its min_value
\* and max_value
PickDates(s, e) ==
    /\ Running \/ Ended
    /\ picker.id # <<>>
    /\ picker.id[3] <= s /\ s <= e /\ e <= picker.id[4]
    /\ StartRun(NoEvent, <<s, e>>)

\* the user picks the first date of a range: len(selected_dates) = 1
PickOneDate ==
    /\ Running \/ Ended
    /\ picker.id # <<>>
    /\ StartRun(NoEvent, <<picker.id[3]>>)

\* the user presses one of the five buttons
PressButton(days) ==
    /\ Running \/ Ended
    /\ shown = "all"
    /\ StartRun([kind |-> "button", days |-> days], picker.sel)

\* the user reruns the script
Rerun ==
    /\ Running \/ Ended
    /\ StartRun(NoEvent, picker.sel)

-----------------------------------------------------------------------------
(* Initial states *)

TracesOff ==
    /\ pc = "off" /\ pt = 0 /\ segments = <<>>
    /\ seg_x = <<>> /\ seg_y = <<>> /\ seg_ok = "none" /\ xcall = <<>>

StatsOff ==
    /\ n_days = 1 /\ spc = "off" /\ g = None
    /\ totals = None /\ daily = None

UiOff ==
    /\ ui = "off" /\ min_date_val = 0 /\ max_date_val = 0
    /\ start_date = 0 /\ end_date = 0
    /\ session_keys = {} /\ event = NoEvent /\ shown = "none" /\ picker = NoPicker
    /\ rewrites = 0

NoData == df_g = <<>> /\ df_c = <<>> /\ df_i = <<>>

SeqsUpTo(S, n) == UNION {[1..k -> S] : k \in 0..n}

NonDecreasing(s) == \A i \in 1..(Len(s) - 1) : TimeLeq(s[i], s[i + 1])

\* the timestamp k nanoseconds into day 0
Tick(k) == At(0, 0, k)

\* a frame sorted by date, handed to _glucose_traces
InitTraces ==
    /\ values \in SeqsUpTo(Values, MaxLen)
    /\ dates \in [1..Len(values) -> {Tick(k) : k \in 0..MaxT}]
    /\ NonDecreasing(dates)
    /\ pc = "start" /\ pt = 0 /\ segments = <<>>
    /\ seg_x = <<>> /\ seg_y = <<>> /\ seg_ok = "none" /\ xcall = <<>>
    /\ ins = <<>> /\ crb = <<>>
    /\ NoData /\ StatsOff /\ UiOff

\* the gaps of a day, of 13 days (below 2^50 ns), of 104 days (below 2^53 ns)
\* and of 2^53 + 3 ns, which float() rounds to 2^53 + 4
WideInstants ==
    {At(1, 0, 0), At(13, 0, 0), At(104, 0, 0), At(104, 21599, 254740995)}

\* a frame of two readings far apart
InitTracesWide ==
    /\ values \in [1..2 -> Values]
    /\ \E t \in WideInstants : dates = <<Tick(0), t>>
    /\ pc = "start" /\ pt = 0 /\ segments = <<>>
    /\ seg_x = <<>> /\ seg_y = <<>> /\ seg_ok = "none" /\ xcall = <<>>
    /\ ins = <<>> /\ crb = <<>>
    /\ NoData /\ StatsOff /\ UiOff

InsRows == {[date |-> Tick(0), value |-> 5, reason |-> Bolus],
            [date |-> Tick(0), value |-> 9, reason |-> Basal]}
CrbRows == {[date |-> Tick(0), value |-> 25]}
StatsDays == {1, 2}

\* the arguments of one call of _stats_section, n_days >= 1 as its
\* docstring asks
FourReadings == <<3, 5, 12, 7>>

InitStats ==
    /\ \/ /\ values \in SeqsUpTo(Values, MaxLen) \cup {FourReadings}
          /\ ins = <<>> /\ crb = <<>> /\ n_days = 1
       \/ /\ values \in {<<>>, <<7>>}
          /\ ins \in SeqsUpTo(InsRows, 2)
          /\ crb \in SeqsUpTo(CrbRows, 2)
          /\ n_days \in StatsDays
    /\ dates = [i \in DOMAIN values |-> Tick(0)]
    /\ spc = "ready" /\ g = None /\ totals = None /\ daily = None
    /\ NoData /\ TracesOff /\ UiOff

\* a readings in range followed by b readings above it
Runs(a, b) == [i \in 1..(a + b) |-> IF i <= a THEN 7 ELSE 12]

\* long frames of glucose readings
InitStatsRuns ==
    /\ \E a \in 0..MaxRun, b \in 0..MaxRun : values = Runs(a, b)
    /\ dates = [i \in DOMAIN values |-> Tick(0)]
    /\ ins = <<>> /\ crb = <<>> /\ n_days = 1
    /\ spc = "ready" /\ g = None /\ totals = None /\ daily = None
    /\ NoData /\ TracesOff /\ UiOff

OneRow(rows) == {<<>>} \cup {<<r>> : r \in rows}

\* the last second of day d: 23:59:59 sharp is the latest the filter of
\* lines 391-393 keeps, 23:59:59.999999 is past it
LastSecond(d) == At(d, EndOfDay, 0)
LastMicrosecond(d) == At(d, EndOfDay, 999999000)

\* the timestamps of a single glucose reading: inside the first day or past
\* the last second of the last day of an export of MaxDay + 1 days
Instants == {LastSecond(0), LastMicrosecond(MaxDay)}

\* glucose frames: none, one reading, or a reading at 23:59:59 of day 0 and
\* one later in the same second
GlucoseFrames ==
    OneRow([date : Instants, value : {7}])
        \cup {<<[date |-> LastSecond(0), value |-> 7],
                [date |-> LastMicrosecond(0), value |-> v]>> : v \in {7, 12}}

CarbFrames == OneRow([date : {StartDt(0), StartDt(MaxDay)}, value : {25}])

InsulinFrames == OneRow([date : {StartDt(0)}, value : {9}, reason : {Basal}])

\* what load_data can return: three frames sorted by date
Exports == GlucoseFrames \X CarbFrames \X InsulinFrames

\* export.xml was rewritten since the run before: load_data, whose cache key
\* holds the file's mtime, returns the new frames in the run that starts
ExportRewritten ==
    /\ ui = "load"
    /\ rewrites < MaxRewrites
    /\ rewrites' = rewrites + 1
    /\ \E x \in Exports :
           /\ x # <<df_g, df_c, df_i>>
           /\ df_g' = x[1] /\ df_c' = x[2] /\ df_i' = x[3]
    /\ UNCHANGED <<dates, values, ins, crb, tracesVars, statsVars,
                   ui, min_date_val, max_date_val, start_date, end_date,
                   session_keys, event, shown, picker>>

\* a new session: the script is about to run for the first time
InitUI ==
    /\ \E x \in Exports : df_g = x[1] /\ df_c = x[2] /\ df_i = x[3]
    /\ ui = "load"
    /\ min_date_val = 0 /\ max_date_val = 0
    /\ start_date = 0 /\ end_date = 0
    /\ session_keys = {} /\ event = NoEvent /\ shown = "none" /\ picker = NoPicker
    /\ rewrites = 0
    /\ dates = <<>> /\ values = <<>> /\ ins = <<>> /\ crb = <<>>
    /\ TracesOff /\ StatsOff

-----------------------------------------------------------------------------
(* Specifications *)

Init == InitTraces \/ InitTracesWide \/ InitStats

Next ==
    \/ TracesEmpty
    \/ TracesBegin
    \/ LoopSame
    \/ LoopCross
    \/ TracesFinish
    \/ _stats_section

\* the segment builder and the statistics on short frames, called directly
Spec == Init /\ [][Next]_vars

InitLarge == InitStats \/ InitStatsRuns

NextStats == _stats_section

\* the statistics on short and on long frames
SpecStats == InitLarge /\ [][NextStats]_vars

NextUI ==
    \/ LoadData
    \/ InitEndDate
    \/ DateInput
    \/ StoreEndDate
    \/ QuickSelect
    \/ QuickSelectEnd
    \/ FilterFrames
    \/ TracesBegin
    \/ LoopSame
    \/ LoopCross
    \/ TracesFinish
    \/ Chart
    \/ _stats_section
    \/ \E s \in PickDays, e \in PickDays : PickDates(s, e)
    \/ PickOneDate
    \/ \E days \in PressDays : PressButton(days)
    \/ Rerun
    \/ ExportRewritten

\* the sessions of the script
SpecUI == InitUI /\ [][NextUI]_vars

-----------------------------------------------------------------------------
(* Vocabulary of the properties *)

N == Len(values)

InputPoints(n) == [i \in 1..n |-> <<dates[i], values[i]>>]

\* the readings the pass has consumed so far
Processed == IF pc = "loop" THEN pt - 1 ELSE IF pc = "done" THEN N ELSE 0

\* the segments built so far, the open one last
AllSegs ==
    IF pc = "loop" THEN Append(segments, Segment(seg_x, seg_y, seg_ok))
    ELSE segments

\* the positions where the builder puts a crossing point: the first point of
\* a segment that is not the first, the last point of one that is not the last
IsCrossPos(segs, k, i) ==
    \/ k > 1 /\ i = 1
    \/ k < Len(segs) /\ i = Len(segs[k].x)

RECURSIVE Tagged(_, _)
Tagged(segs, k) ==
    IF k > Len(segs) THEN <<>>
    ELSE [i \in 1..Len(segs[k].x) |->
             [p |-> <<segs[k].x[i], segs[k].y[i]>>,
              cross |-> IsCrossPos(segs, k, i),
              dup |-> k > 1 /\ i = 1]] \o Tagged(segs, k + 1)

PointsOf(tagged) == [i \in DOMAIN tagged |-> tagged[i].p]

\* the points of the segments that are readings, in order
Readings(segs) == PointsOf(SelectSeq(Tagged(segs, 1), LAMBDA e : ~e.cross))

\* the segments laid end to end, each shared point kept once
Polyline(segs) == PointsOf(SelectSeq(Tagged(segs, 1), LAMBDA e : ~e.dup))

\* the polyline without its crossing points
PolylineReadings(segs) ==
    PointsOf(SelectSeq(Tagged(segs, 1), LAMBDA e : ~e.dup /\ ~e.cross))

\* the readings whose zone differs from the zone of the reading before
ChangeAt ==
    IF N <= 1 THEN <<>>
    ELSE SelectSeq([i \in 1..(N - 1) |-> i + 1],
                   LAMBDA j : _glucose_zone(values[j]) # _glucose_zone(values[j - 1]))

ZoneCount(zone) == Cardinality({i \in DOMAIN values : _glucose_zone(values[i]) = zone})

\* p / q rounded to the nearest integer, ties to even, in exact arithmetic
RoundHalfEven(p, q) ==
    LET n == p \div q
        r == p % q
    IN  IF 2 * r > q \/ (2 * r = q /\ n % 2 = 1) THEN n + 1 ELSE n

-----------------------------------------------------------------------------
(* Properties *)

\* C1: for a non-empty frame _glucose_traces returns one more segment than
\* there are consecutive readings in different zones; a frame of one reading
\* gives one segment of one point.
C1_SegmentCount ==
    (pc = "done" /\ N >= 1) =>
        /\ Len(segments) = 1 + Len(ChangeAt)
        /\ N = 1 => segments =
               <<Segment(<<dates[1]>>, <<values[1]>>, _glucose_zone(values[1]))>>

C1_Witness == pc = "done" /\ N = 3 /\ Len(segments) = 3

\* C2: the last point of each segment is the first point of the next one and
\* is the crossing point of the two readings around the zone change; the
\* segments laid end to end, shared points once, run from the first reading
\* to the last, and without the one crossing point per junction they are the
\* input readings in input order.
C2_SharedCrossing ==
    (pc = "done" /\ N >= 1) =>
        /\ Len(segments) = Len(ChangeAt) + 1
        /\ \A k \in 1..(Len(segments) - 1) :
               LET a == segments[k]
                   b == segments[k + 1]
                   j == ChangeAt[k]
                   c == _crossing_point(dates[j - 1], dates[j],
                                        values[j - 1], values[j])
               IN  /\ <<a.x[Len(a.x)], a.y[Len(a.y)]>> = c
                   /\ <<b.x[1], b.y[1]>> = c
        /\ LET line == Polyline(segments)
           IN  /\ line[1] = <<dates[1], values[1]>>
               /\ line[Len(line)] = <<dates[N], values[N]>>
               /\ Len(line) = N + Len(segments) - 1
        /\ PolylineReadings(segments) = InputPoints(N)

C2_Witness ==
    /\ pc = "done" /\ Len(segments) = 3
    /\ segments[1].x[Len(segments[1].x)] = segments[2].x[1]
    /\ segments[2].x[Len(segments[2].x)] = segments[3].x[1]

\* the number of times the point p occurs in the sequence
Occ(seq, p) == Cardinality({i \in DOMAIN seq : seq[i] = p})

\* C2 as stated: consecutive segments share the crossing point, and the
\* polyline holds the point of every input reading as often as the input
\* does, so once for a reading that is not repeated.
C2_EveryReadingOnce ==
    (pc = "done" /\ N >= 1) =>
        /\ \A k \in 1..(Len(segments) - 1) :
               LET a == segments[k]
                   b == segments[k + 1]
               IN  <<a.x[Len(a.x)], a.y[Len(a.y)]>> = <<b.x[1], b.y[1]>>
        /\ \A i \in 1..N :
               Occ(Polyline(segments), <<dates[i], values[i]>>)
                   = Occ(InputPoints(N), <<dates[i], values[i]>>)

\* C3: tir and tar are round(count / n * 100) computed in double precision,
\* each a nearest integer to the exact percentage; the counts are those of
\* the zone classifier, thresholds in range; tbr = 100 - tir - tar, so the
\* three sum to 100; the readings 3, 5, 12, 7 give 50, 25, 25.
C3_PercentNearest ==
    (spc = "done" /\ N >= 1) =>
        LET cin == ZoneCount("in_range")
            cab == ZoneCount("above")
        IN  /\ g # None
            /\ g.tir = FloatRound(FloatMul(FloatDiv(cin, N), 100))
            /\ g.tar = FloatRound(FloatMul(FloatDiv(cab, N), 100))
            /\ 2 * Abs(N * g.tir - 100 * cin) <= N
            /\ 2 * Abs(N * g.tar - 100 * cab) <= N
            /\ g.tbr = 100 - g.tir - g.tar
            /\ g.tir + g.tar + g.tbr = 100
            /\ values = FourReadings => g.tir = 50 /\ g.tar = 25 /\ g.tbr = 25

\* 23 readings of 40 in range: the exact percentage 57.5 comes out as 57
C3_Witness ==
    /\ spc = "done" /\ N = 40 /\ ZoneCount("in_range") = 23
    /\ g # None /\ g.tir = 57 /\ g.tar = 42 /\ g.tbr = 1

\* C3 as stated: tir and tar are the exact percentages 100 * count / n
\* rounded to the nearest integer, ties to even, and tbr = 100 - tir - tar.
C3_PercentExact ==
    (spc = "done" /\ N >= 1) =>
        /\ g # None
        /\ g.tir = RoundHalfEven(100 * ZoneCount("in_range"), N)
        /\ g.tar = RoundHalfEven(100 * ZoneCount("above"), N)
        /\ g.tbr = 100 - g.tir - g.tar

\* C4: every value is in exactly one zone: below iff under GLUCOSE_MIN, above
\* iff over GLUCOSE_MAX, in range iff between them, thresholds included; a
\* frame whose readings all equal GLUCOSE_MIN gives one in-range segment and
\* no call of the crossing solver.
C4_ZonesPartition ==
    /\ \A i \in DOMAIN values :
           LET v == values[i]
               z == _glucose_zone(v)
           IN  /\ z \in {"below", "in_range", "above"}
               /\ z = "below" <=> v < GLUCOSE_MIN
               /\ z = "above" <=> v > GLUCOSE_MAX
               /\ z = "in_range" <=> (GLUCOSE_MIN <= v /\ v <= GLUCOSE_MAX)
    /\ (pc = "done" /\ N >= 1 /\ \A i \in DOMAIN values : values[i] = GLUCOSE_MIN) =>
           /\ Len(segments) = 1
           /\ segments[1].ok = "in_range"
           /\ segments[1].y = values
           /\ xcall = <<>>

C4_Witness ==
    /\ pc = "done" /\ N >= 2
    /\ \A i \in DOMAIN values : values[i] = GLUCOSE_MIN
    /\ Len(segments) = 1

\* x < y
RECURSIVE BigLess(_, _)
BigLess(x, y) ==
    IF Len(x) # Len(y) THEN Len(x) < Len(y)
    ELSE IF x = <<>> THEN FALSE
    ELSE IF x[Len(x)] # y[Len(y)] THEN x[Len(x)] < y[Len(y)]
    ELSE BigLess(SubSeq(x, 1, Len(x) - 1), SubSeq(y, 1, Len(y) - 1))

\* |x - y|
BigDist(x, y) == IF BigLess(x, y) THEN BigSub(y, x) ELSE BigSub(x, y)

\* the closed interval between a and b holds c
Within(a, b, c) == (a <= c /\ c <= b) \/ (b <= c /\ c <= a)

\* a gap t1 - t0 below 2^50 ns, about 13 days: the rounding of the ratio
\* and of the product is then below one nanosecond
NearGapBits == MantissaBits - 3

\* the crossing the equation asks for and the one returned, both from t0
\* and both times |v1 - v0|, which makes them whole numbers
ExactStep(t0, t1, v0, boundary) ==
    BigMul(TimeDiff(t1, t0).ns, BigOf(Abs(boundary - v0)))
GotStep(t0, t_cross, v0, v1) ==
    BigMul(TimeDiff(t_cross, t0).ns, BigOf(Abs(v1 - v0)))

\* C5: for the samples of a zone change, t0 <= t1, _crossing_point returns
\* GLUCOSE_MIN when exactly one value is under it and GLUCOSE_MAX otherwise,
\* a threshold between the two values; the values differ, so the ratio 0.5
\* is not used; t_cross is t0 plus the whole nanoseconds of the double
\* (t1 - t0) * ratio: it is not before t0, not after t1 when the gap is
\* below 2^53 ns, where float() keeps it, and less than two nanoseconds from
\* the exact crossing when the gap is below 2^50 ns.
C5_CrossingNearExact ==
    xcall # <<>> =>
        LET t0  == xcall[1]
            t1  == xcall[2]
            v0  == xcall[3]
            v1  == xcall[4]
            c   == _crossing_point(t0, t1, v0, v1)
            gap == TimeDiff(t1, t0).ns
        IN  /\ TimeLeq(t0, t1)
            /\ _glucose_zone(v0) # _glucose_zone(v1)
            /\ c[2] = (IF (v0 < GLUCOSE_MIN /\ ~(v1 < GLUCOSE_MIN))
                          \/ (v1 < GLUCOSE_MIN /\ ~(v0 < GLUCOSE_MIN))
                       THEN GLUCOSE_MIN ELSE GLUCOSE_MAX)
            /\ Within(v0, v1, c[2])
            /\ v1 # v0
            /\ TimeLeq(t0, c[1])
            /\ BigBitLen(gap) <= MantissaBits => TimeLeq(c[1], t1)
            /\ BigBitLen(gap) <= NearGapBits =>
                   BigLess(BigDist(ExactStep(t0, t1, v0, c[2]), GotStep(t0, c[1], v0, v1)),
                           BigOf(2 * Abs(v1 - v0)))

\* a crossing a day after t0 or later, strictly inside the interval, that
\* is not the exact one
C5_Witness ==
    /\ xcall # <<>>
    /\ LET t0 == xcall[1]
           t1 == xcall[2]
           c  == _crossing_point(t0, t1, xcall[3], xcall[4])
       IN  /\ c[1].day >= 1
           /\ BigBitLen(TimeDiff(t1, t0).ns) <= NearGapBits
           /\ c[1] # t0 /\ c[1] # t1
           /\ TimeLeq(t0, c[1]) /\ TimeLeq(c[1], t1)
           /\ ExactStep(t0, t1, xcall[3], c[2]) # GotStep(t0, c[1], xcall[3], xcall[4])
           /\ segments # <<>>
           /\ segments[Len(segments)].x[Len(segments[Len(segments)].x)] = c[1]

\* C5 as stated: the crossing time solves the interpolation equation exactly
\* and lies between t0 and t1.
C5_CrossingExact ==
    xcall # <<>> =>
        LET t0 == xcall[1]
            t1 == xcall[2]
            v0 == xcall[3]
            v1 == xcall[4]
            c  == _crossing_point(t0, t1, v0, v1)
        IN  /\ Within(v0, v1, c[2])
            /\ GotStep(t0, c[1], v0, v1) = ExactStep(t0, t1, v0, c[2])
            /\ TimeLeq(t0, c[1]) /\ TimeLeq(c[1], t1)

\* C6: no call of the crossing solver gets one value below the range and the
\* other above it, and no segment below the range is followed or preceded by
\* one above it.
C6_SingleBoundaryCalls ==
    /\ xcall # <<>> =>
           {_glucose_zone(xcall[3]), _glucose_zone(xcall[4])} # {"below", "above"}
    /\ pc = "done" => \A k \in 1..(Len(segments) - 1) :
           {segments[k].ok, segments[k + 1].ok} # {"below", "above"}

\* C7: at every step of the pass and at its end, in every segment built so
\* far the points at reading positions are in the zone of the segment, the
\* other points are first in a segment that is not the first or last in one
\* that is not the last and have the value GLUCOSE_MIN or GLUCOSE_MAX, and
\* the points at reading positions are the readings consumed so far.
C7_SegmentInvariant ==
    pc \in {"loop", "done"} =>
        LET segs == AllSegs
        IN  /\ \A k \in DOMAIN segs :
                   /\ Len(segs[k].x) = Len(segs[k].y)
                   /\ \A i \in DOMAIN segs[k].y :
                          IF IsCrossPos(segs, k, i)
                          THEN segs[k].y[i] \in {GLUCOSE_MIN, GLUCOSE_MAX}
                          ELSE _glucose_zone(segs[k].y[i]) = segs[k].ok
            /\ Readings(segs) = InputPoints(Processed)

\* in the middle of the pass: a closed segment, and an open one that holds
\* a crossing point and a reading
C7_Witness ==
    /\ pc = "loop" /\ pt <= N
    /\ Len(segments) >= 1 /\ Len(seg_x) >= 2
    /\ seg_y[1] \in {GLUCOSE_MIN, GLUCOSE_MAX}
    /\ _glucose_zone(seg_y[2]) = seg_ok

\* C8: an empty frame is not an error: _glucose_traces returns an empty list,
\* _glucose_stats returns None and a record only for a frame with readings,
\* the insulin totals are 0 for an empty insulin frame and the carbohydrate
\* total is 0 for an empty carbohydrate frame, and _stats_section returns.
C8_EmptyInputDefined ==
    /\ (pc = "done" /\ values = <<>>) => segments = <<>>
    /\ spc \in {"done", "raised"} =>
           /\ spc = "done"
           /\ g = None <=> values = <<>>
           /\ ins = <<>> => (totals.bolus = 0 /\ totals.basal = 0)
           /\ crb = <<>> => totals.carbs = 0
           /\ (ins = <<>> /\ crb = <<>>) =>
                  daily = [bolus |-> 0, basal |-> 0, carbs |-> 0]

\* _stats_section called on three empty frames
C8_Witness ==
    /\ ui = "off" /\ spc = "done"
    /\ values = <<>> /\ ins = <<>> /\ crb = <<>>
    /\ g = None /\ totals = [bolus |-> 0, basal |-> 0, carbs |-> 0]

\* C9: no run of the script ends in a division by zero: whenever a run has
\* reached the call of _stats_section, n_days is
\* max(1, (end_date - start_date) + 1) >= 1, and when the call has returned
\* the daily averages are there.
C9_DayCountPositive ==
    /\ ui # "zero_division"
    /\ ui \in {"stats", "wait"} =>
           /\ n_days >= 1
           /\ n_days = (IF end_date - start_date + 1 >= 1
                        THEN end_date - start_date + 1 ELSE 1)
           /\ spc \in {"ready", "done"}
           /\ ui = "wait" => (spc = "done" /\ daily # None)

\* the run that st.rerun() started after a press of the 3-day button, in a
\* span longer than 3 days, finished
C9_Witness ==
    /\ ui = "wait" /\ event = StRerun
    /\ start_date = max_date_val - 3 /\ end_date = max_date_val
    /\ min_date_val < start_date
    /\ n_days = 4 /\ spc = "done" /\ daily # None

\* C10: 200 readings, 91 of them in range and 109 above it, give
\* tir + tar = 101 and tbr = -1; tbr is negative only when no reading is
\* below the range.
C10_NegativeBelowShare ==
    (spc = "done" /\ g # None) =>
        /\ (N = 200 /\ ZoneCount("in_range") = 91 /\ ZoneCount("above") = 109) =>
               (g.tir = 46 /\ g.tar = 55 /\ g.tir + g.tar > 100 /\ g.tbr = -1)
        /\ g.tbr < 0 => (g.tir + g.tar > 100 /\ ZoneCount("below") = 0)

C10_Witness ==
    /\ spc = "done" /\ g # None /\ N >= 1
    /\ g.tir + g.tar > 100 /\ g.tbr < 0

\* C11: in a session whose export file does not change, once the session
\* dates are set, the selected range lies inside the span of the data:
\* min_date_val <= start_date <= end_date <= max_date_val.
C11_RangeWithinSpan ==
    (ui # "off" /\ session_keys = {"start_date", "end_date"} /\ rewrites = 0) =>
        /\ min_date_val <= start_date
        /\ start_date <= end_date
        /\ end_date <= max_date_val

=============================================================================
